---- MODULE Spec2Model ----
(***************************************************************************)
(* Model of the two PyInstaller helper scripts of clipDownloader:          *)
(*                                                                         *)
(*   pyinstaller-hooks/rthook-gallery-dl.py  the runtime preload shim      *)
(*   pyinstaller-hooks/hook-gallery_dl.py    the bundle-manifest declarator*)
(*                                                                         *)
(* The shim is modelled line by line as a per-process state machine over a *)
(* shared temporary directory.  The calls it makes into the Python         *)
(* standard library (pkgutil.get_data, os.makedirs, open, importlib) are   *)
(* modelled by what CPython does at those call sites.  The declarator is   *)
(* modelled as the evaluation of its module body, with the two PyInstaller *)
(* enumeration helpers modelled by what PyInstaller does.                  *)
(***************************************************************************)
EXTENDS Integers, Sequences, FiniteSets, TLC

\* Bounds of the model.
MaxLen == 2          \* longest byte string (resource, temp file content)
MaxInvocations == 2  \* calls of _preload_extractor in one process
MaxSub == 3          \* most names the four enumerations list in total

\* Processes that can run the frozen application at the same time.
Procs == {1, 2}

Byte == {0, 1}

\* Byte strings of length at most MaxLen.
Bytes == UNION {[1..n -> Byte] : n \in 0..MaxLen}

\* An optional value is a set with at most one element: {} is None.
None == {}
Some(x) == {x}
The(s) == CHOOSE x \in s : TRUE
Opt(S) == {None} \cup {Some(x) : x \in S}

\* The arguments of the one call of the shim (line 22).
ModName == "gallery_dl.extractor.2ch"
RelPath == "2ch.py"

\* hook-gallery_dl.py, lines 5-8: the plugin packages, in the order of the
\* calls.
PluginPackages == <<"gallery_dl.extractor", "gallery_dl.downloader",
                    "gallery_dl.postprocessor", "gallery_dl.output">>

\* Module names an enumeration can list.
Names == {"m1", "m2"}

\* Sequences over S of length at most n.
BSeq(S, n) == UNION {[1..k -> S] : k \in 0..n}

Range(f) == {f[i] : i \in DOMAIN f}

VARIABLES
  \* ---- the frozen bundle and the shared temporary directory
  library,      \* "missing": gallery_dl cannot be imported
                \* "nosubpkg": gallery_dl imports, gallery_dl.extractor is
                \*             not locatable (find_spec gives None)
                \* "located": gallery_dl.extractor is importable
  resource,     \* Opt(Bytes): the bytes of <package dir>/2ch.py, None = absent
  tmpdir,       \* <tempdir>/gallery_dl_pyinst_extractors: "none", "dir"
                \* or "file" (the path exists and is not a directory)
  tmpfile,      \* for each path a process writes to, Opt(Bytes): the
                \* content of the file there, None = no file
  \* ---- per process
  running,      \* the set of processes that were started
  pc,           \* position of each process
  ncalls,       \* how often the process calls _preload_extractor
  calls,        \* invocations of _preload_extractor begun
  data,         \* local: result of pkgutil.get_data
  fpos,         \* local: file offset of the open file object f
  module,       \* local: the module object built at lines 16-18
  sys_modules,  \* sys.modules[ModName]: Opt(module)
  pkg_import,   \* who imported gallery_dl.extractor: "none", "fetch", "app"
  err,          \* the exception that ended the process, "" if none
  discovery,    \* the library's lookup of ModName: "no", "found", "notfound"
  \* ---- history, written at fixed points and never read by the program
  before,       \* tmpdir, tmpfile, sys_modules when the current call began
  after1,       \* tmpfile, sys_modules when the first call returned
  \* ---- the declarator (build time)
  installed,    \* is gallery_dl importable in the build environment
  tool,         \* what the enumeration helpers do for a package that is
                \* not importable: "raise" or "empty"
  submods,      \* what collect_submodules lists for each plugin package
  tree,         \* the files of gallery_dl's installed location
  bpc,          \* position in the declarator's module body
  parts,        \* results of the collect_submodules calls made so far
  hiddenimports,\* Opt(sequence): the attribute once bound
  datas,        \* Opt(set of pairs): the attribute once bound
  berr          \* the exception that ended the build, "" if none

shimVars == <<library, resource, tmpdir, tmpfile, running, pc, ncalls, calls, data,
              fpos, module, sys_modules, pkg_import, err, discovery,
              before, after1>>
buildVars == <<installed, tool, submods, tree, bpc, parts, hiddenimports,
               datas, berr>>
vars == <<shimVars, buildVars>>


upd(f, p, v) == [f EXCEPT ![p] = v]

(***************************************************************************)
(* The runtime preload shim: rthook-gallery-dl.py                          *)
(***************************************************************************)

\* dst changed to a directory of the process's own (tempfile.mkdtemp).
dst_PerProcess(p) == <<"gallery_dl_pyinst_extractors", p, RelPath>>

\* Lines 9 and 11: dst = <tempfile.gettempdir()>/gallery_dl_pyinst_extractors/
\* <relpath>, the path process p writes to and loads from.  Nothing in it
\* depends on the process.
dst(p) == <<"gallery_dl_pyinst_extractors", RelPath>>

\* The paths the processes write to.
Paths == {dst(p) : p \in Procs}

\* get_data changed to read the resource without importing the package.
get_data_NoImport(lib, res) ==
  CASE lib = "missing"  -> [raises |-> "ModuleNotFoundError", value |-> None,
                            imports |-> FALSE]
    [] lib = "nosubpkg" -> [raises |-> "", value |-> None, imports |-> FALSE]
    [] lib = "located" /\ res = None ->
                           [raises |-> "FileNotFoundError", value |-> None,
                            imports |-> FALSE]
    [] OTHER            -> [raises |-> "", value |-> res, imports |-> FALSE]

\* pkgutil.get_data(package, resource) in a bundle (lib, res):
\*   find_spec imports the parent package and raises ModuleNotFoundError
\*   when it is missing; a package that cannot be located gives None; else
\*   the package is imported and its loader's get_data reads the file, which
\*   raises FileNotFoundError (an OSError) when the file does not exist.
get_data(lib, res) ==
  CASE lib = "missing"  -> [raises |-> "ModuleNotFoundError", value |-> None,
                            imports |-> FALSE]
    [] lib = "nosubpkg" -> [raises |-> "", value |-> None, imports |-> FALSE]
    [] lib = "located" /\ res = None ->
                           [raises |-> "FileNotFoundError", value |-> None,
                            imports |-> TRUE]
    [] OTHER            -> [raises |-> "", value |-> res, imports |-> TRUE]

\* `not data`: None and b'' are both falsy.
Falsy(d) == d = None \/ d = Some(<<>>)

\* makedirs changed to exist_ok=False: an existing directory raises.
makedirs_NoExistOk(d) ==
  CASE d = "none" -> [raises |-> "", dir |-> "dir"]
    [] OTHER      -> [raises |-> "FileExistsError", dir |-> d]

\* os.makedirs(path, exist_ok=True) on a path in state d: an existing
\* directory is accepted, an existing non-directory raises FileExistsError.
makedirs(d) ==
  CASE d = "none" -> [raises |-> "", dir |-> "dir"]
    [] d = "dir"  -> [raises |-> "", dir |-> "dir"]
    [] OTHER      -> [raises |-> "FileExistsError", dir |-> d]

\* A write of chunk at file offset pos: bytes past the end of the file are
\* appended, a gap before pos reads as zero bytes, bytes under the chunk
\* are overwritten.
WriteAt(content, pos, chunk) ==
  LET n == IF Len(content) > pos + Len(chunk) THEN Len(content)
           ELSE pos + Len(chunk)
  IN [i \in 1..n |->
        IF i > pos /\ i <= pos + Len(chunk) THEN chunk[i - pos]
        ELSE IF i <= Len(content) THEN content[i] ELSE 0]

\* Whether compiling and executing a source raises.  It is a function of
\* the bytes; the model takes the sources that end in a 0 byte to raise, so
\* that a source and its truncations can differ in this.
Raises(code) == Len(code) > 0 /\ code[Len(code)] = 0

\* spec_from_file_location + module_from_spec + exec_module on a file that
\* holds code: a new module object (serial tells the objects of one process
\* apart) named modname, not in sys.modules.
exec_module(modname, path, code, serial) ==
  [name |-> modname, origin |-> path, code |-> code, serial |-> serial]

\* What the history variables record.
Snapshot(p, dir, file, reg) == [dir |-> dir, file |-> file, reg |-> reg]

\* after1 as it is when a call returns leaving (file, reg).
Returned(p, file, reg) ==
  IF calls[p] = 1 THEN upd(after1, p, Some([file |-> file, reg |-> reg]))
  ELSE after1

\* An exception leaves _preload_extractor and the hook: nothing catches it.
Raise(p, e) ==
  /\ pc' = upd(pc, p, "raised")
  /\ err' = upd(err, p, e)

\* Line 22 (and a later call of the same function in the same process):
\* _preload_extractor('gallery_dl.extractor.2ch', '2ch.py') is entered.
Call(p) ==
  /\ p \in running
  /\ \/ pc[p] = "boot"
     \/ pc[p] = "returned" /\ calls[p] < ncalls
  /\ pc' = upd(pc, p, "fetch")
  /\ calls' = upd(calls, p, calls[p] + 1)
  /\ data' = upd(data, p, None)
  /\ module' = upd(module, p, None)
  /\ before' = upd(before, p,
                   Some(Snapshot(p, tmpdir, tmpfile, sys_modules[p])))
  /\ UNCHANGED <<library, resource, tmpdir, tmpfile, running, ncalls, fpos,
                 sys_modules, pkg_import, err, discovery, after1, buildVars>>

\* Lines 6-8: data = pkgutil.get_data(...); if not data: return
Fetch(p) ==
  /\ pc[p] = "fetch"
  /\ LET r == get_data(library, resource) IN
       /\ pkg_import' = IF r.imports /\ pkg_import[p] = "none"
                        THEN upd(pkg_import, p, "fetch") ELSE pkg_import
       /\ IF r.raises # ""
          THEN /\ Raise(p, r.raises)
               /\ UNCHANGED <<data, after1>>
          ELSE /\ data' = upd(data, p, r.value)
               /\ err' = err
               /\ IF Falsy(r.value)
                  THEN /\ pc' = upd(pc, p, "returned")
                       /\ after1' = Returned(p, tmpfile, sys_modules[p])
                  ELSE /\ pc' = upd(pc, p, "mkdirs")
                       /\ after1' = after1
  /\ UNCHANGED <<library, resource, tmpdir, tmpfile, running, ncalls, calls, fpos,
                 module, sys_modules, discovery, before, buildVars>>

\* Lines 9-12: the two os.makedirs(..., exist_ok=True).  dirname(dst) is
\* tmpdir itself for '2ch.py'.  fault: the operating system refuses
\* (permission denied, disk full).
MakeDirs(p) ==
  /\ pc[p] = "mkdirs"
  /\ \E fault \in BOOLEAN :
       LET r == makedirs(tmpdir) IN
       IF fault \/ r.raises # ""
       THEN /\ Raise(p, IF fault THEN "OSError in makedirs" ELSE r.raises)
            /\ tmpdir' = tmpdir
       ELSE /\ tmpdir' = r.dir
            /\ pc' = upd(pc, p, "open")
            /\ err' = err
  /\ UNCHANGED <<library, resource, tmpfile, running, ncalls, calls, data, fpos,
                 module, sys_modules, pkg_import, discovery, before, after1,
                 buildVars>>

\* Open changed to mode 'r+b'/'ab'-like: an existing file is not truncated.
Open_NoTruncate(p) ==
  /\ pc[p] = "open"
  /\ \E fault \in BOOLEAN :
       IF fault
       THEN /\ Raise(p, "OSError in open")
            /\ UNCHANGED <<tmpfile, fpos>>
       ELSE /\ tmpfile' = IF tmpfile[dst(p)] = None
                          THEN upd(tmpfile, dst(p), Some(<<>>)) ELSE tmpfile
            /\ fpos' = upd(fpos, p, 0)
            /\ pc' = upd(pc, p, "write")
            /\ err' = err
  /\ UNCHANGED <<library, resource, tmpdir, running, ncalls, calls, data,
                 module, sys_modules, pkg_import, discovery, before, after1,
                 buildVars>>

\* Line 13: open(dst, 'wb') creates the file or truncates it to length 0.
Open(p) ==
  /\ pc[p] = "open"
  /\ \E fault \in BOOLEAN :
       IF fault
       THEN /\ Raise(p, "OSError in open")
            /\ UNCHANGED <<tmpfile, fpos>>
       ELSE /\ tmpfile' = upd(tmpfile, dst(p), Some(<<>>))
            /\ fpos' = upd(fpos, p, 0)
            /\ pc' = upd(pc, p, "write")
            /\ err' = err
  /\ UNCHANGED <<library, resource, tmpdir, running, ncalls, calls, data, module,
                 sys_modules, pkg_import, discovery, before, after1,
                 buildVars>>

\* Line 14 and the end of the with block: the bytes of data reach the file
\* at the file object's own offset, in one write or in several; the file is
\* closed when the last byte is written.
Write(p) ==
  /\ pc[p] = "write"
  /\ \E fault \in BOOLEAN :
       IF fault
       THEN /\ Raise(p, "OSError in write")
            /\ UNCHANGED <<tmpfile, fpos>>
       ELSE \E k \in (fpos[p] + 1)..Len(The(data[p])) :
              /\ tmpfile' = upd(tmpfile, dst(p),
                               Some(WriteAt(The(tmpfile[dst(p)]), fpos[p],
                                      SubSeq(The(data[p]), fpos[p] + 1, k))))
              /\ fpos' = upd(fpos, p, k)
              /\ pc' = upd(pc, p, IF k = Len(The(data[p])) THEN "load"
                                  ELSE "write")
              /\ err' = err
  /\ UNCHANGED <<library, resource, tmpdir, running, ncalls, calls, data, module,
                 sys_modules, pkg_import, discovery, before, after1,
                 buildVars>>

\* Load changed to put the module into sys.modules before executing it.
Load_RegisterFirst(p) ==
  /\ pc[p] = "load"
  /\ LET code == The(tmpfile[dst(p)])
         m == Some(exec_module(ModName, dst(p), code, calls[p]))
     IN
       /\ sys_modules' = upd(sys_modules, p, m)
       /\ IF Raises(code)
          THEN /\ Raise(p, "error in exec_module")
               /\ module' = module
          ELSE /\ module' = upd(module, p, m)
               /\ pc' = upd(pc, p, "register")
               /\ err' = err
  /\ UNCHANGED <<library, resource, tmpdir, tmpfile, running, ncalls, calls,
                 data, fpos, pkg_import, discovery, before, after1,
                 buildVars>>

\* Lines 15-18: the file at dst is read, compiled and executed into a new
\* module object.  sys.modules is not touched.  (The frozen interpreter
\* writes no bytecode cache, so what is executed is compiled from the bytes
\* the file holds at this moment.)
Load(p) ==
  /\ pc[p] = "load"
  /\ LET code == The(tmpfile[dst(p)]) IN
       IF Raises(code)
       THEN /\ Raise(p, "error in exec_module")
            /\ module' = module
       ELSE /\ module' = upd(module, p, Some(exec_module(ModName, dst(p), code,
                                                         calls[p])))
            /\ pc' = upd(pc, p, "register")
            /\ err' = err
  /\ UNCHANGED <<library, resource, tmpdir, tmpfile, running, ncalls, calls, data,
                 fpos, sys_modules, pkg_import, discovery, before, after1,
                 buildVars>>

\* Line 19: sys.modules[modname] = module, then the function returns.
Register(p) ==
  /\ pc[p] = "register"
  /\ sys_modules' = upd(sys_modules, p, module[p])
  /\ pc' = upd(pc, p, "returned")
  /\ after1' = Returned(p, tmpfile, module[p])
  /\ UNCHANGED <<library, resource, tmpdir, tmpfile, running, ncalls, calls, data,
                 fpos, module, pkg_import, err, discovery, before, buildVars>>


\* The bootstrap hands control to the application's entry point once the
\* hook's top-level code has run to its end.  A hook that raised has
\* stopped the process.
AppStart(p) ==
  /\ pc[p] = "returned"
  /\ pc' = upd(pc, p, "app")
  /\ UNCHANGED <<library, resource, tmpdir, tmpfile, running, ncalls, calls, data,
                 fpos, module, sys_modules, pkg_import, err, discovery,
                 before, after1, buildVars>>

\* The application imports the wrapped library.
AppImport(p) ==
  /\ pc[p] = "app"
  /\ library = "located"
  /\ pc' = upd(pc, p, "lib")
  /\ pkg_import' = IF pkg_import[p] = "none" THEN upd(pkg_import, p, "app")
                   ELSE pkg_import
  /\ UNCHANGED <<library, resource, tmpdir, tmpfile, running, ncalls, calls, data,
                 fpos, module, sys_modules, err, discovery, before, after1,
                 buildVars>>

\* The library's extractor discovery looks ModName up in the registry.
Discovery(p) ==
  /\ pc[p] = "lib"
  /\ pc' = upd(pc, p, "done")
  /\ discovery' = upd(discovery, p, IF sys_modules[p] # None THEN "found"
                                    ELSE "notfound")
  /\ UNCHANGED <<library, resource, tmpdir, tmpfile, running, ncalls, calls, data,
                 fpos, module, sys_modules, pkg_import, err, before, after1,
                 buildVars>>

\* The declarator is not part of a run of the frozen application.
BuildIdle ==
  /\ installed = FALSE
  /\ tool = "raise"
  /\ submods = [k \in Range(PluginPackages) |-> <<>>]
  /\ tree = {}
  /\ bpc = "off"
  /\ parts = <<>>
  /\ hiddenimports = None
  /\ datas = None
  /\ berr = ""

\* The state at process start: any bundle, and a temporary directory as an
\* earlier run of any program may have left it.
ShimInit(procs, n) ==
  /\ library \in {"missing", "nosubpkg", "located"}
  /\ resource \in Opt(Bytes)
  /\ library # "located" => resource = None
  /\ tmpdir \in {"none", "dir", "file"}
  /\ tmpfile \in [Paths -> Opt(Bytes)]
  /\ tmpdir # "dir" => \A x \in Paths : tmpfile[x] = None
  /\ running = procs
  /\ pc = [p \in Procs |-> IF p \in procs THEN "boot" ELSE "off"]
  /\ ncalls = n
  /\ calls = [p \in Procs |-> 0]
  /\ data = [p \in Procs |-> None]
  /\ fpos = [p \in Procs |-> 0]
  /\ module = [p \in Procs |-> None]
  /\ sys_modules = [p \in Procs |-> None]
  /\ pkg_import = [p \in Procs |-> "none"]
  /\ err = [p \in Procs |-> ""]
  /\ discovery = [p \in Procs |-> "no"]
  /\ before = [p \in Procs |-> None]
  /\ after1 = [p \in Procs |-> None]

ShimStep(p) ==
  \/ Call(p)
  \/ Fetch(p)
  \/ MakeDirs(p)
  \/ Open(p)
  \/ Write(p)
  \/ Load(p)
  \/ Register(p)
  \/ AppStart(p)
  \/ AppImport(p)
  \/ Discovery(p)

\* One process starts the frozen application.
Init == \E n \in 1..MaxInvocations : ShimInit({1}, n) /\ BuildIdle
Next == \E p \in Procs : ShimStep(p)
Spec == Init /\ [][Next]_vars

\* Two processes start it at the same time.
\* the hook as it is, on a bundle that holds the library, with no file left
\* by an earlier run.
InitRace ==
  /\ ShimInit(Procs, 1)
  /\ library = "located"
  /\ tmpdir # "file"
  /\ \A x \in Paths : tmpfile[x] = None
  /\ BuildIdle
SpecRace == InitRace /\ [][Next]_vars


(***************************************************************************)
(* Properties of the shim                                                  *)
(***************************************************************************)

\* Positions inside _preload_extractor after the resource was found.
Found == {"mkdirs", "open", "write", "load", "register"}

\* The call of process p is over: it returned or an exception left it.
Over(p) == pc[p] \in {"returned", "raised"}

\* The registry holds, under ModName, a module executed from the file at
\* dst(p) whose bytes were b.
RegisteredFrom(p, b) ==
  /\ sys_modules[p] # None
  /\ The(sys_modules[p]).name = ModName
  /\ The(sys_modules[p]).origin = dst(p)
  /\ The(sys_modules[p]).code = b

C2_AbsentIsNoOp ==
  \A p \in running :
    (library = "located" /\ resource = None /\ Over(p)) =>
      /\ pc[p] = "returned"
      /\ sys_modules[p] = The(before[p]).reg

\* Two registry entries are the same module: both absent, or modules of the
\* same name executed from the same file with the same bytes.  The module
\* object itself is new at every call (its serial differs).
SameModule(a, b) ==
  \/ a = None /\ b = None
  \/ /\ a # None /\ b # None
     /\ The(a).name = The(b).name
     /\ The(a).origin = The(b).origin
     /\ The(a).code = The(b).code

\* C3: a later call in the same process on the same bundle returns with the
\* temp file and the registered module as the first call left them, and it
\* never fails because the directory or the file already exists or because
\* the module does not execute: only a refusal of the operating system
\* (an injected OSError) can end it.
C3_SecondCallSameState ==
  \A p \in running :
    (calls[p] >= 2 /\ after1[p] # None) =>
      /\ pc[p] = "returned" =>
           /\ tmpfile = The(after1[p]).file
           /\ SameModule(sys_modules[p], The(after1[p]).reg)
      /\ pc[p] = "raised" =>
           err[p] \in {"OSError in makedirs", "OSError in open",
                       "OSError in write"}

\* C3 witness: the second call returned after registering a second module
\* object.
C3_Witness ==
  /\ calls[1] = 2
  /\ pc[1] = "returned"
  /\ sys_modules[1] # None
  /\ The(sys_modules[1]).serial = 2
  /\ The(The(after1[1]).reg).serial = 1

\* C4: when the resource was found and a later step fails, the exception
\* ends the process (the application is never started, nothing is looked
\* up) and the registry entry of ModName is what it was when the call began.
C4_FailureLeavesRegistry ==
  \A p \in running :
    /\ (pc[p] = "raised" /\ data[p] # None) =>
         sys_modules[p] = The(before[p]).reg
    /\ err[p] # "" => (pc[p] = "raised" /\ discovery[p] = "no")

\* C4 witness: the resource was found and written, and the execution of
\* the module raised.
C4_Witness ==
  /\ pc[1] = "raised"
  /\ err[1] = "error in exec_module"
  /\ data[1] # None

\* C5 as stated: while the shim is between Fetch and Register, the package
\* gallery_dl.extractor has not been imported and ModName has not been
\* looked up.
C5_NoImportBeforeRegister ==
  \A p \in running :
    pc[p] \in Found => (pkg_import[p] = "none" /\ discovery[p] = "no")

\* C5 amended: the application's own import of the library and the
\* discovery lookup of ModName happen only after the hook has returned, so a
\* lookup in a bundle with a non-empty resource finds the registered module;
\* but gallery_dl.extractor itself is imported by the shim's Fetch step
\* (pkgutil.get_data imports the package), before Register.
C5_RegisterBeforeDiscovery ==
  \A p \in running :
    /\ pc[p] \in Found => (pkg_import[p] = "fetch" /\ discovery[p] = "no")
    /\ pc[p] \in {"boot", "fetch"} => discovery[p] = "no"
    /\ pkg_import[p] = "app" => pc[p] \in {"lib", "done"}
    /\ (discovery[p] # "no" /\ resource # None /\ resource # Some(<<>>)) =>
         (discovery[p] = "found" /\ RegisteredFrom(p, The(resource)))

\* C5 witness: the lookup found the module, in a process whose import of
\* the package was made by Fetch.
C5_Witness ==
  /\ discovery[1] = "found"
  /\ pkg_import[1] = "fetch"

\* Process p has opened the file for writing.
HasOpened(p) ==
  \/ pc[p] \in {"write", "load", "register", "returned", "app", "lib", "done"}
     /\ data[p] # None /\ data[p] # Some(<<>>)
  \/ pc[p] = "raised" /\ err[p] \in {"OSError in write", "error in exec_module"}

\* C9: every process writes to and loads from the same path, and a process
\* loads something other than its resource bytes (registering a module of
\* other content, or failing in Load on a resource that executes) only when
\* another process has opened that file for writing.
C9_SharedPathRace ==
  /\ \A p, q \in Procs : dst(p) = dst(q)
  /\ \A p \in running :
       (\/ module[p] # None /\ The(module[p]).code # The(data[p])
        \/ sys_modules[p] # None /\ The(sys_modules[p]).code # The(resource)
        \/ err[p] = "error in exec_module" /\ ~Raises(The(data[p])))
       => \E q \in running \ {p} : HasOpened(q)

\* C9 witness: process 1 registered a module executed from a file that
\* process 2 had truncated, so its code is not the resource.
C9_Witness ==
  /\ pc[1] = "returned"
  /\ sys_modules[1] # None
  /\ resource # None
  /\ The(sys_modules[1]).code # The(resource)
  /\ pc[2] \in {"write", "load"}

\* C10: an absent resource and an empty one are treated alike: the call
\* returns at line 8, and the temp directory, the temp file and the registry
\* entry are what they were when the call began.
C10_EmptyLikeAbsent ==
  \A p \in running :
    (library = "located" /\ Falsy(resource) /\ Over(p)) =>
      /\ pc[p] = "returned"
      /\ tmpdir = The(before[p]).dir
      /\ tmpfile = The(before[p]).file
      /\ sys_modules[p] = The(before[p]).reg


(***************************************************************************)
(* The bundle-manifest declarator: hook-gallery_dl.py                      *)
(***************************************************************************)

\* The files gallery_dl's installed location can hold: source files in the
\* package and in a subpackage, a data file and a bytecode cache file (the
\* library is pure Python: it ships no compiled extension).  dir is the
\* directory relative to the directory that holds gallery_dl.
FileUniverse ==
  { [dir |-> <<"gallery_dl">>, base |-> "__init__", suffix |-> ".py"],
    [dir |-> <<"gallery_dl", "extractor">>, base |-> "2ch", suffix |-> ".py"],
    [dir |-> <<"gallery_dl">>, base |-> "data", suffix |-> ".json"],
    [dir |-> <<"gallery_dl", "__pycache__">>, base |-> "__init__",
     suffix |-> ".pyc"] }

\* How many names the listings l of the first k plugin packages hold.
RECURSIVE Listed(_, _)
Listed(l, k) ==
  IF k = 0 THEN 0 ELSE Listed(l, k - 1) + Len(l[PluginPackages[k]])

\* PyInstaller.utils.hooks.collect_submodules(package): the names the
\* package walk lists; a package that cannot be imported lists nothing, and
\* no error is raised for it.
collect_submodules(package) ==
  IF installed THEN submods[package] ELSE <<>>

\* hiddenimports with duplicates dropped (the first occurrence is kept).
RECURSIVE Dedup(_)
Dedup(q) ==
  IF q = <<>> THEN <<>>
  ELSE LET r == Dedup(SubSeq(q, 1, Len(q) - 1))
       IN IF q[Len(q)] \in Range(r) THEN r ELSE Append(r, q[Len(q)])

HiddenImportsExpr_Dedup(a, b, c, d) == Dedup(a \o b \o c \o d)

\* Lines 4-9: the value of the parenthesised expression, a + b + c + d on
\* lists.
HiddenImportsExpr(a, b, c, d) == ((a \o b) \o c) \o d

\* include_py_files left at its default.
IncludePyFiles_Default == FALSE

\* Line 11: the keyword argument include_py_files=True.
IncludePyFiles == TRUE

\* The files collect_data_files leaves out: Python-suffixed files unless
\* include_py_files is set, compiled extensions, and always the .pyc files
\* in a __pycache__ directory.
Excluded(f, include_py_files) ==
  \/ f.suffix \in {".py", ".pyc"} /\ ~include_py_files
  \/ f.suffix = ".so"
  \/ f.suffix = ".pyc" /\ f.dir[Len(f.dir)] = "__pycache__"

\* PyInstaller.utils.hooks.collect_data_files(package, include_py_files):
\* one (source, destination directory) pair per collected file of the
\* package's installed location, the destination being the file's directory
\* relative to the directory that holds the package.  For a package that
\* cannot be imported the helper raises or returns an empty list, depending
\* on the PyInstaller release (tool).
collect_data_files(package, include_py_files) ==
  IF ~installed
  THEN [raises |-> IF tool = "raise" THEN "ImportError" ELSE "",
        value |-> {}]
  ELSE [raises |-> "",
        value |-> { <<[root |-> "site-packages", file |-> f], f.dir>> :
                     f \in {g \in tree : ~Excluded(g, include_py_files)} }]

\* Line 2: from PyInstaller.utils.hooks import ...; the hook is evaluated
\* by PyInstaller, so the import succeeds.
Import ==
  /\ bpc = "import"
  /\ bpc' = "hiddenimports"
  /\ UNCHANGED <<installed, tool, submods, tree, parts, hiddenimports, datas,
                 berr, shimVars>>

\* Lines 4-9: the four calls in order, then the binding of hiddenimports.
HiddenImports ==
  /\ bpc = "hiddenimports"
  /\ parts' = [k \in 1..Len(PluginPackages) |->
                 collect_submodules(PluginPackages[k])]
  /\ hiddenimports' = Some(HiddenImportsExpr(parts'[1], parts'[2], parts'[3],
                                             parts'[4]))
  /\ bpc' = "datas"
  /\ UNCHANGED <<installed, tool, submods, tree, datas, berr, shimVars>>

\* Line 11: datas = collect_data_files("gallery_dl", include_py_files=True).
\* Nothing catches what the call raises.
Datas ==
  /\ bpc = "datas"
  /\ LET r == collect_data_files("gallery_dl", IncludePyFiles) IN
       IF r.raises # ""
       THEN /\ berr' = r.raises
            /\ bpc' = "raised"
            /\ datas' = datas
       ELSE /\ datas' = Some(r.value)
            /\ bpc' = "done"
            /\ berr' = berr
  /\ UNCHANGED <<installed, tool, submods, tree, parts, hiddenimports,
                 shimVars>>

\* No frozen application runs at build time.
ShimIdle ==
  /\ library = "missing"
  /\ resource = None
  /\ tmpdir = "none"
  /\ tmpfile = [x \in Paths |-> None]
  /\ running = {}
  /\ pc = [p \in Procs |-> "off"]
  /\ ncalls = 1
  /\ calls = [p \in Procs |-> 0]
  /\ data = [p \in Procs |-> None]
  /\ fpos = [p \in Procs |-> 0]
  /\ module = [p \in Procs |-> None]
  /\ sys_modules = [p \in Procs |-> None]
  /\ pkg_import = [p \in Procs |-> "none"]
  /\ err = [p \in Procs |-> ""]
  /\ discovery = [p \in Procs |-> "no"]
  /\ before = [p \in Procs |-> None]
  /\ after1 = [p \in Procs |-> None]

\* The build environment when PyInstaller evaluates the hook: gallery_dl
\* installed with any listing of each plugin package and any file tree, or
\* not importable at all.
InitBuild ==
  /\ installed \in BOOLEAN
  /\ tool \in {"raise", "empty"}
  /\ submods \in [Range(PluginPackages) -> BSeq(Names, MaxSub)]
  /\ Listed(submods, Len(PluginPackages)) <= MaxSub
  /\ tree \in SUBSET FileUniverse
  /\ ~installed => /\ tree = {}
                   /\ \A k \in DOMAIN submods : submods[k] = <<>>
  /\ bpc = "import"
  /\ parts = <<>>
  /\ hiddenimports = None
  /\ datas = None
  /\ berr = ""
  /\ ShimIdle

NextBuild ==
  \/ Import
  \/ HiddenImports
  \/ Datas

SpecBuild == InitBuild /\ [][NextBuild]_vars


(***************************************************************************)
(* Properties of the declarator                                            *)
(***************************************************************************)

\* C6: once bound, hiddenimports holds, for each plugin package in the
\* order extractor, downloader, postprocessor, output, every name the
\* package's enumeration lists, at the position the concatenation gives it:
\* its length is the sum of the four lengths (nothing dropped, no duplicate
\* removed, nothing added), and an empty enumeration contributes nothing.
C6_HiddenImportsIsConcatenation ==
  hiddenimports # None =>
    LET h == The(hiddenimports) IN
      /\ PluginPackages = <<"gallery_dl.extractor", "gallery_dl.downloader",
                            "gallery_dl.postprocessor", "gallery_dl.output">>
      /\ Len(h) = Listed(submods, Len(PluginPackages))
      /\ \A k \in 1..Len(PluginPackages) :
           \A i \in 1..Len(submods[PluginPackages[k]]) :
             h[Listed(submods, k - 1) + i] = submods[PluginPackages[k]][i]
      /\ \A i \in 1..Len(h) :
           \E k \in 1..Len(PluginPackages) :
             h[i] \in Range(submods[PluginPackages[k]])

\* C6 witness: hiddenimports is bound from enumerations of which one is
\* empty and two list the same name.
C6_Witness ==
  /\ hiddenimports = Some(<<"m1", "m2", "m1">>)
  /\ submods["gallery_dl.extractor"] = <<"m1", "m2">>
  /\ submods["gallery_dl.downloader"] = <<>>
  /\ submods["gallery_dl.postprocessor"] = <<"m1">>
  /\ submods["gallery_dl.output"] = <<>>

\* The files that exist after every source of d was copied into its
\* destination directory.
Copied(d) ==
  { [dir |-> x[2], base |-> x[1].file.base, suffix |-> x[1].file.suffix] :
      x \in d }

\* C7 as stated: datas holds one pair for every file of the installed tree,
\* and copying them reproduces the tree: no file missing, none added, none
\* relocated.
C7_DatasReproducesTree ==
  (installed /\ datas # None) =>
    /\ Cardinality(The(datas)) = Cardinality(tree)
    /\ Copied(The(datas)) = tree

\* C7 amended: datas holds one pair for every file of the installed tree
\* except the .pyc files of __pycache__ directories and compiled
\* extensions; source (.py) files are included; copying them reproduces
\* exactly those files at their directories relative to the library root.
C7_DatasReproducesSources ==
  (installed /\ datas # None) =>
    LET kept == {f \in tree :
                   ~(\/ f.suffix = ".so"
                     \/ f.suffix = ".pyc" /\ f.dir[Len(f.dir)] = "__pycache__")}
    IN /\ Cardinality(The(datas)) = Cardinality(kept)
       /\ Copied(The(datas)) = kept
       /\ \A f \in tree : f.suffix = ".py" => f \in Copied(The(datas))

\* C7 witness: datas is bound for the tree that holds two source files, a
\* data file and a bytecode cache file, and holds three pairs.
C7_Witness ==
  /\ installed
  /\ datas # None
  /\ tree = FileUniverse
  /\ Cardinality(The(datas)) = 3

\* C8: when gallery_dl is not importable at build time the evaluation of
\* the declarator never completes: it ends with an exception, and the
\* manifests are not left bound to empty values.
C8_MissingLibraryFails ==
  ~installed =>
    /\ bpc # "done"
    /\ ~(hiddenimports = Some(<<>>) /\ datas = Some({}))

====
